---------------------------- MODULE Spec2Model ----------------------------
(***************************************************************************)
(* pscanner: a concurrent TCP port scanner (src/main.go).                  *)
(*                                                                         *)
(* The model covers the scan engine of main(): the bounded job channel,    *)
(* the pool of worker goroutines, the producer loop of main, the progress  *)
(* reporter goroutine, the mutex-guarded Stats aggregate, and TryConnect,  *)
(* the retry loop of one probe.                                            *)
(*                                                                         *)
(* Specifications:                                                         *)
(*   Spec       one run of main() from the point where hosts and portList  *)
(*              are built (src/main.go:285) to the final summary.          *)
(*   SpecFull   the same run, started from configurations with more jobs   *)
(*              than the channel's capacity.                               *)
(*   SpecProbe  TryConnect alone, applied to every retry budget and every  *)
(*              sequence of dial outcomes within the bounds.               *)
(*   SpecMain   main() from flag.Parse(): the host, hosts-file, CIDR-file, *)
(*              port and output-file flags, then the same run.             *)
(*   SpecPorts  ParsePorts alone, applied to port specifications written   *)
(*              out from every sequence of tokens within the bounds.       *)
(*   SpecCIDR   ExpandCIDR alone, applied to every block of the reduced    *)
(*              address space.                                             *)
(*   SpecTick   the arithmetic of one progress tick alone, applied to      *)
(*              every snapshot within the bounds.                          *)
(***************************************************************************)
EXTENDS Integers, Sequences, FiniteSets

(***************************************************************************)
(* Bounds of the model.                                                    *)
(***************************************************************************)
MaxHosts == 2

MaxPorts == 2

MaxWorkers == 2

MaxRetries == 1

MaxProbeRetries == 3

FullHosts == 6

MaxTokens == 2

\* an address is AddrBytes bytes of ByteBits bits (IPv4: 4 bytes of 8 bits)
AddrBytes == 2

ByteBits == 2

\* the elapsed times of a progress tick, in seconds
MaxElapsed == 3

(***************************************************************************)
(* Program constants.                                                      *)
(***************************************************************************)
\* jobs := make(chan ScanJob, concurrency*10)
QueueFactor == 10

HostNames == {"h1", "h2"}

VARIABLES
    \* configuration, fixed before dispatch begins
    hosts,        \* []string: the HostSet, duplicates kept
    portList,     \* []int: the PortSet, as ParsePorts returned it
    concurrency,  \* -c
    retries,      \* -r
    ports,        \* -p: the port specification, a string of characters
    hostFlag,     \* -h: host
    hostsFile,    \* -hosts: whether it is given, and what ReadLines makes of it
    cidrFile,     \* -cidr: whether it is given, and what ReadLines makes of it
    outputFile,   \* -o: whether it is given, and whether os.Create fails on it
    output,       \* stats.output is not nil (-o names a file that was created)
    \* the jobs channel and the WaitGroup
    jobs,         \* the channel's buffer, oldest first
    closed,       \* close(jobs) has happened
    wg,           \* the WaitGroup's counter
    \* Stats
    mu,           \* stats.mu is locked
    scanned,      \* stats.scanned
    openPorts,    \* stats.openPorts
    \* the main goroutine
    mainpc,       \* its position
    spawned,      \* i of the loop that starts the workers
    hi,           \* index of targetHost in hosts
    pi,           \* index of port in portList
    final,        \* the (scanned, openPorts) main reads for the summary
    ci,           \* index of cidr in cidrs
    \* the workers
    wpc,          \* position of each worker
    wjob,         \* the job a worker holds
    wret,         \* what TryConnect returned for it
    wreg,         \* the counter value a worker loaded inside ++
    wresult,      \* the result line a worker has formatted: display address, port
    werr,         \* the err of its GetHostIP call was not nil
    wlookups,     \* GetHostIP calls a worker made for the job it holds
    wopened,      \* IncrementOpen calls a worker completed for the job it holds
    \* the progress reporter
    rpc,          \* its position
    rsnap,        \* the (scanned, openPorts) of the tick in progress
    \* history, not program state
    sent,         \* every (host index, port index) pair sent on jobs, in order
    taken,        \* how many times each sent job has been received
    processed,    \* how many times each sent job has been processed to the end
    incScannedCalls, \* completed calls of IncrementScanned
    incOpenCalls,    \* completed calls of IncrementOpen
    lastTick,     \* the snapshot of the previous completed tick
    probedOpen,   \* how many calls of TryConnect returned true
    printed,      \* how many result lines fmt.Print wrote to the console
    written,      \* how many result lines stats.output.Write wrote to the file
    \* TryConnect alone (SpecProbe)
    probeArgs,    \* the retry budget and the dial outcomes
    probeRes,     \* what TryConnect returned, with its trace of calls
    \* ParsePorts alone (SpecPorts)
    genToks,      \* history: the tokens the port specification was written from
    parseRes,     \* what ParsePorts returned
    \* ExpandCIDR
    ecidr,        \* cidr, the argument of the call in progress
    epc,          \* position in ExpandCIDR
    eip,          \* ip, the loop variable
    eips,         \* ips
    eret,         \* what ExpandCIDR returned
    \* the arithmetic of one progress tick alone (SpecTick)
    tickArgs,     \* scanned, openPorts, elapsed of the snapshot, and totalJobs
    tickLine      \* the values the progress line is printed from

cfgvars == <<hosts, portList, concurrency, retries, output>>

chanvars == <<jobs, closed, wg>>

statvars == <<mu, scanned, openPorts>>

mainvars == <<mainpc, spawned, hi, pi, final>>

workvars == <<wpc, wjob, wret, wreg>>

repvars == <<rpc, rsnap>>

histvars == <<sent, taken, processed, incScannedCalls, incOpenCalls, lastTick>>

probevars == <<probeArgs, probeRes>>

linevars == <<wresult, werr, wlookups, wopened>>

emitvars == <<probedOpen, printed, written>>

cidrvars == <<ecidr, epc, eip, eips, eret>>

flagvars == <<hostFlag, hostsFile, cidrFile, outputFile, ci>>

tickvars == <<tickArgs, tickLine>>

confvars == <<ports, genToks, parseRes, cidrvars, flagvars, tickvars>>

vars == <<cfgvars, chanvars, statvars, mainvars, workvars, repvars, histvars, probevars,
         linevars, emitvars, confvars>>

\* a worker holding no job; a snapshot not taken
NoJob == [Host |-> "", Port |-> 0, id |-> 0]

NoSnap == <<>>

\* no result line formatted
NoLine == [ip |-> "", port |-> 0]

NoProbe == [ret |-> FALSE, trace |-> <<"none">>]

NoArgs == [host |-> "", port |-> 0, n |-> 0, dial |-> <<>>]

\* a file flag left empty
NoFile == [set |-> FALSE, err |-> FALSE, lines |-> <<>>]

\* ExpandCIDR not called, nothing returned
NoCidr == [ok |-> FALSE, ip |-> <<>>, bits |-> 0]

NoRet == [ips |-> <<"none">>, err |-> FALSE]

\* ParsePorts not called
NoParse == [err |-> FALSE, ports |-> <<0>>]

\* no tick computed
NoTick == [scanned |-> 0, openPorts |-> 0, elapsed |-> 0, totalJobs |-> 0]

NoProgress == <<>>

Workers == 1..concurrency

\* totalJobs := len(hosts) * len(portList)
totalJobs == Len(hosts) * Len(portList)

\* the capacity of the jobs channel
QueueCap == concurrency * QueueFactor

Max(a, b) == IF a > b THEN a ELSE b

(***************************************************************************)
(* TryConnect.  dial[k] is the outcome of the k-th net.DialTimeout call    *)
(* (TRUE: err == nil).  The result carries the trace of the calls made:    *)
(* "dial" for DialTimeout, "close" for conn.Close, "sleep" for time.Sleep. *)
(***************************************************************************)
RECURSIVE TryConnectLoop(_, _, _, _, _)
TryConnectLoop(address, i, n, dial, trace) ==
    IF i < n
    THEN IF dial[i + 1]
         THEN [ret |-> TRUE,
               trace |-> trace \o <<[op |-> "dial", to |-> address], [op |-> "close", to |-> address]>>]
         ELSE TryConnectLoop(address, i + 1, n, dial,
                  trace \o <<[op |-> "dial", to |-> address], [op |-> "sleep", to |-> address]>>)
    ELSE [ret |-> FALSE, trace |-> trace]

\* a loop that does not return at the first success: it goes through the
\* whole budget and answers whether any attempt succeeded
TryConnect_NoEarlyReturn(host, port, n, dial) ==
    LET m == Max(n, 0)
        tr[k \in 0..m] ==
            IF k = 0 THEN <<>>
            ELSE tr[k - 1] \o <<[op |-> "dial", to |-> <<host, port>>],
                                [op |-> IF dial[k] THEN "close" ELSE "sleep", to |-> <<host, port>>]>>
    IN [ret |-> \E k \in 1..m : dial[k], trace |-> tr[m]]

TryConnect(host, port, n, dial) == TryConnectLoop(<<host, port>>, 0, n, dial, <<>>)

\* the dial outcomes a probe with budget n can meet
DialOutcomes(n) == [1..Max(n, 0) -> BOOLEAN]

(***************************************************************************)
(* Stats: the mutex and the three methods.  s.scanned++ and s.openPorts++  *)
(* are a load and a store; Lock is taken with the load, Unlock follows the *)
(* store.                                                                  *)
(***************************************************************************)
\* a Lock that does not wait for the holder
Lock_NoExclusion == mu' = TRUE

Lock == ~mu /\ mu' = TRUE

Unlock == mu' = FALSE

(***************************************************************************)
(* GetHostIP.  ips and lookupErr are what net.LookupIP answers.            *)
(***************************************************************************)
\* the address a name resolves to; an address resolves to itself
AddrOf(host) ==
    CASE host = "h1" -> "10.0.0.1"
      [] host = "h2" -> "10.0.0.2"
      [] OTHER -> host

\* the address lists net.LookupIP can hand back for a host
Answers(host) == {<<>>, <<AddrOf(host)>>}

GetHostIP(host, ips, lookupErr) ==
    IF lookupErr \/ Len(ips) = 0
    THEN [ip |-> "", err |-> TRUE]
    ELSE [ip |-> ips[1], err |-> FALSE]

\* for _, targetHost := range hosts { for _, port := range portList { ... } }
LoopEnd == <<Len(hosts) + 1, 1>>

LoopStart == IF Len(portList) = 0 THEN LoopEnd ELSE <<1, 1>>

\* the inner loop stopping one port short
LoopAdvance_SkipsLastPort(h, p) == IF p + 1 < Len(portList) THEN <<h, p + 1>> ELSE <<h + 1, 1>>

LoopAdvance(h, p) == IF p < Len(portList) THEN <<h, p + 1>> ELSE <<h + 1, 1>>

\* position of a (host index, port index) pair in the cross product
JobId(h, p) == (h - 1) * Len(portList) + p

JobIds == 1..totalJobs

(***************************************************************************)
(* ParsePorts.  A string is a sequence of characters.  Split, TrimSpace,   *)
(* Contains and Atoi are the functions of strings and strconv the code     *)
(* calls.                                                                  *)
(***************************************************************************)
WhiteSpace == {" ", "\t"}

DigitChars == <<"0", "1", "2", "3", "4", "5", "6", "7", "8", "9">>

IsDigit(c) == \E k \in DOMAIN DigitChars : DigitChars[k] = c

DigitVal(c) == (CHOOSE k \in DOMAIN DigitChars : DigitChars[k] = c) - 1

\* strings.Split(s, sep): the pieces between the separators, empty ones kept
RECURSIVE Split(_, _)
Split(s, sep) ==
    IF \E k \in DOMAIN s : s[k] = sep
    THEN LET k == CHOOSE k \in DOMAIN s : s[k] = sep /\ \A l \in 1..(k - 1) : s[l] # sep
         IN <<SubSeq(s, 1, k - 1)>> \o Split(SubSeq(s, k + 1, Len(s)), sep)
    ELSE <<s>>

\* strings.TrimSpace(s)
RECURSIVE TrimSpace(_)
TrimSpace(s) ==
    IF s # <<>> /\ s[1] \in WhiteSpace THEN TrimSpace(Tail(s))
    ELSE IF s # <<>> /\ s[Len(s)] \in WhiteSpace THEN TrimSpace(SubSeq(s, 1, Len(s) - 1))
    ELSE s

\* strings.Contains(s, c) for a one-character c
Contains(s, c) == \E k \in DOMAIN s : s[k] = c

RECURSIVE DecimalValue(_)
DecimalValue(s) ==
    IF s = <<>> THEN 0
    ELSE 10 * DecimalValue(SubSeq(s, 1, Len(s) - 1)) + DigitVal(s[Len(s)])

\* strconv.Atoi(s): an optional sign, then one or more decimal digits.  The
\* numerals met here are far below the range of int.
Atoi(s) ==
    LET signed == s # <<>> /\ s[1] \in {"+", "-"}
        digits == IF signed THEN Tail(s) ELSE s
    IN IF digits = <<>> \/ \E k \in DOMAIN digits : ~IsDigit(digits[k])
       THEN [err |-> TRUE, val |-> 0]
       ELSE [err |-> FALSE,
             val |-> IF s[1] = "-" THEN 0 - DecimalValue(digits) ELSE DecimalValue(digits)]

\* the largest port number
MaxPort == 65535

\* return nil, fmt.Errorf(...)
ParseFail == [err |-> TRUE, portSet |-> {}]

\* a range whose end is left out
ParsePart_ExclusiveEnd(part) ==
    IF Contains(part, "-")
    THEN LET rangeParts == Split(part, "-")
             start == Atoi(TrimSpace(rangeParts[1]))
             end == Atoi(TrimSpace(rangeParts[2]))
         IN IF Len(rangeParts) # 2 THEN ParseFail
            ELSE IF start.err THEN ParseFail
            ELSE IF end.err THEN ParseFail
            ELSE IF start.val < 1 \/ start.val > MaxPort \/ end.val < 1 \/ end.val > MaxPort
                 THEN ParseFail
            ELSE IF start.val > end.val THEN ParseFail
            ELSE [err |-> FALSE, portSet |-> start.val..(end.val - 1)]
    ELSE LET port == Atoi(part)
         IN IF port.err THEN ParseFail
            ELSE IF port.val < 1 \/ port.val > MaxPort THEN ParseFail
            ELSE [err |-> FALSE, portSet |-> {port.val}]

\* the body of the loop over the parts, for one trimmed, non-empty part: the
\* ports it adds to portSet, or the error returned
ParsePart(part) ==
    IF Contains(part, "-")
    THEN LET rangeParts == Split(part, "-")
             start == Atoi(TrimSpace(rangeParts[1]))
             end == Atoi(TrimSpace(rangeParts[2]))
         IN IF Len(rangeParts) # 2 THEN ParseFail
            ELSE IF start.err THEN ParseFail
            ELSE IF end.err THEN ParseFail
            ELSE IF start.val < 1 \/ start.val > MaxPort \/ end.val < 1 \/ end.val > MaxPort
                 THEN ParseFail
            ELSE IF start.val > end.val THEN ParseFail
            ELSE [err |-> FALSE, portSet |-> start.val..end.val]
    ELSE LET port == Atoi(part)
         IN IF port.err THEN ParseFail
            ELSE IF port.val < 1 \/ port.val > MaxPort THEN ParseFail
            ELSE [err |-> FALSE, portSet |-> {port.val}]

\* a loop that skips a part it cannot parse and goes on
RECURSIVE ParseParts_SkipsBadPart(_, _, _)
ParseParts_SkipsBadPart(parts, i, portSet) ==
    IF i > Len(parts) THEN [err |-> FALSE, portSet |-> portSet]
    ELSE LET part == TrimSpace(parts[i])
         IN IF part = <<>> \/ ParsePart(part).err
            THEN ParseParts_SkipsBadPart(parts, i + 1, portSet)
            ELSE ParseParts_SkipsBadPart(parts, i + 1, portSet \cup ParsePart(part).portSet)

\* for _, part := range parts { ... }, from the i-th part on
RECURSIVE ParseParts(_, _, _)
ParseParts(parts, i, portSet) ==
    IF i > Len(parts) THEN [err |-> FALSE, portSet |-> portSet]
    ELSE LET part == TrimSpace(parts[i])
         IN IF part = <<>> THEN ParseParts(parts, i + 1, portSet)
            ELSE IF ParsePart(part).err THEN ParseFail
            ELSE ParseParts(parts, i + 1, portSet \cup ParsePart(part).portSet)

\* the keys of the map portSet when ParsePorts returns
ParsePorts(portSpec) ==
    IF portSpec = <<>> THEN [err |-> FALSE, portSet |-> {}]
    ELSE ParseParts(Split(portSpec, ","), 1, {})

\* for port := range portSet { ports = append(ports, port) }: every key once,
\* in the order the map hands them out
MapOrders(S) ==
    {q \in [1..Cardinality(S) -> S] : \A a, b \in DOMAIN q : a # b => q[a] # q[b]}

(***************************************************************************)
(* ExpandCIDR and inc.  An address is a sequence of AddrBytes bytes, most  *)
(* significant first; a byte holds ByteBits bits and ++ wraps it to 0.     *)
(* cidr is what net.ParseCIDR makes of the string: the address and the     *)
(* prefix length, or an error.                                             *)
(***************************************************************************)
Min(a, b) == IF a < b THEN a ELSE b

ByteSize == 2 ^ ByteBits

AddrBits == AddrBytes * ByteBits

Bytes == 0..(ByteSize - 1)

Addrs == [1..AddrBytes -> Bytes]

\* the CIDR strings: any address with any prefix length, and one that does
\* not parse
Cidrs == [ok : {TRUE}, ip : Addrs, bits : 0..AddrBits] \cup {NoCidr}

\* how many of the leading bits of byte i a mask of the given length sets
OnesIn(bits, i) == Min(ByteBits, Max(0, bits - (i - 1) * ByteBits))

\* x & m for a mask byte m of that many leading ones
AndMask(x, ones) == x - (x % (2 ^ (ByteBits - ones)))

\* ip.Mask(ipnet.Mask)
Mask(ip, bits) == [i \in 1..AddrBytes |-> AndMask(ip[i], OnesIn(bits, i))]

\* ipnet.Contains(ip)
NetContains(cidr, ip) ==
    \A i \in 1..AddrBytes :
        AndMask(Mask(cidr.ip, cidr.bits)[i], OnesIn(cidr.bits, i)) = AndMask(ip[i], OnesIn(cidr.bits, i))

\* an inc that does not carry into the next byte
inc_NoCarry(ip) == [ip EXCEPT ![Len(ip)] = (@ + 1) % ByteSize]

\* for j := len(ip) - 1; j >= 0; j-- { ip[j]++; if ip[j] > 0 { break } }
RECURSIVE incFrom(_, _)
incFrom(ip, j) ==
    IF j < 1 THEN ip
    ELSE LET next == [ip EXCEPT ![j] = (@ + 1) % ByteSize]
         IN IF next[j] > 0 THEN next ELSE incFrom(next, j - 1)

inc(ip) == incFrom(ip, Len(ip))

\* the decimal numeral of n, as a string
RECURSIVE NumText(_)
NumText(n) ==
    IF n < 10 THEN DigitChars[n + 1]
    ELSE NumText(n \div 10) \o DigitChars[(n % 10) + 1]

\* ip.String(): the bytes in decimal, joined by dots
RECURSIVE DottedFrom(_, _)
DottedFrom(ip, i) ==
    IF i = Len(ip) THEN NumText(ip[i])
    ELSE NumText(ip[i]) \o "." \o DottedFrom(ip, i + 1)

IPString(ip) == DottedFrom(ip, 1)

\* ip, ipnet, err := net.ParseCIDR(cidr); if err != nil { return nil, err };
\* otherwise the loop starts at ip.Mask(ipnet.Mask)
ExpandStart ==
    /\ epc = "call"
    /\ IF ~ecidr.ok
       THEN /\ eret' = [ips |-> <<>>, err |-> TRUE]
            /\ epc' = "returned"
            /\ UNCHANGED <<eip, eips>>
       ELSE /\ eip' = Mask(ecidr.ip, ecidr.bits)
            /\ eips' = <<>>
            /\ epc' = "loop"
            /\ UNCHANGED eret
    /\ UNCHANGED <<cfgvars, chanvars, statvars, mainvars, workvars, repvars,
                   histvars, probevars, linevars, emitvars, flagvars, ports,
                   genToks, tickvars, parseRes, ecidr>>

\* one turn of the loop: ips = append(ips, ip.String()); inc(ip).  The model
\* stops following a loop that has collected more addresses than exist.
ExpandStep ==
    /\ epc = "loop"
    /\ NetContains(ecidr, eip)
    /\ Len(eips) <= Cardinality(Addrs)
    /\ eips' = Append(eips, IPString(eip))
    /\ eip' = inc(eip)
    /\ UNCHANGED <<cfgvars, chanvars, statvars, mainvars, workvars, repvars,
                   histvars, probevars, linevars, emitvars, flagvars, ports,
                   genToks, tickvars, parseRes, ecidr, epc, eret>>

\* the loop ends; if len(ips) > 2 { return ips[1 : len(ips)-1], nil };
\* return ips, nil
ExpandReturn ==
    /\ epc = "loop"
    /\ ~NetContains(ecidr, eip)
    /\ eret' = [ips |-> IF Len(eips) > 2 THEN SubSeq(eips, 2, Len(eips) - 1) ELSE eips,
                err |-> FALSE]
    /\ epc' = "returned"
    /\ UNCHANGED <<cfgvars, chanvars, statvars, mainvars, workvars, repvars,
                   histvars, probevars, linevars, emitvars, flagvars, ports,
                   genToks, tickvars, parseRes, ecidr, eip, eips>>

ExpandNext ==
    \/ ExpandStart
    \/ ExpandStep
    \/ ExpandReturn

(***************************************************************************)
(* Initial states: the configurations a run can start from.  hosts is      *)
(* never empty (main defaults it to 127.0.0.1); portList holds each port   *)
(* once, in any order (ParsePorts ranges over a map), and may be empty.    *)
(***************************************************************************)
HostLists(n) == UNION {[1..k -> HostNames] : k \in 1..n}

PortLists(n) ==
    {q \in UNION {[1..k -> 1..n] : k \in 0..n} :
        \A a, b \in DOMAIN q : a # b => q[a] # q[b]}

InitEngine ==
    /\ jobs = <<>> /\ closed = FALSE /\ wg = 0
    /\ mu = FALSE /\ scanned = 0 /\ openPorts = 0
    /\ mainpc = "spawn" /\ spawned = 0 /\ hi = 0 /\ pi = 0 /\ final = NoSnap
    /\ wpc = [w \in Workers |-> "unborn"]
    /\ wjob = [w \in Workers |-> NoJob]
    /\ wret = [w \in Workers |-> FALSE]
    /\ wreg = [w \in Workers |-> 0]
    /\ rpc = "unborn" /\ rsnap = NoSnap
    /\ sent = <<>>
    /\ taken = [j \in JobIds |-> 0]
    /\ processed = [j \in JobIds |-> 0]
    /\ incScannedCalls = 0 /\ incOpenCalls = 0
    /\ lastTick = <<0, 0>>
    /\ wresult = [w \in Workers |-> NoLine]
    /\ werr = [w \in Workers |-> FALSE]
    /\ wlookups = [w \in Workers |-> 0]
    /\ wopened = [w \in Workers |-> 0]
    /\ probedOpen = 0 /\ printed = 0 /\ written = 0

\* the flags have been consumed, no function is called on its own
InitConfigured ==
    /\ ports = <<>>
    /\ hostFlag = "" /\ hostsFile = NoFile /\ cidrFile = NoFile /\ outputFile = NoFile /\ ci = 0
    /\ ecidr = NoCidr /\ epc = "idle" /\ eip = <<>> /\ eips = <<>> /\ eret = NoRet
    /\ genToks = <<>> /\ parseRes = NoParse
    /\ tickArgs = NoTick /\ tickLine = NoProgress

InitRun ==
    /\ InitEngine
    /\ InitConfigured
    /\ probeArgs = NoArgs /\ probeRes = NoProbe

Init ==
    /\ hosts \in HostLists(MaxHosts)
    /\ portList \in PortLists(MaxPorts)
    /\ concurrency \in 0..MaxWorkers
    /\ retries \in 0..MaxRetries
    /\ output = FALSE
    /\ InitRun

(***************************************************************************)
(* main, from the start of the workers to the final summary.               *)
(***************************************************************************)
\* for i := 0; i < concurrency; i++ { wg.Add(1); go worker(jobs, &wg, stats) }
StartWorker ==
    /\ mainpc = "spawn"
    /\ spawned < concurrency
    /\ spawned' = spawned + 1
    /\ wg' = wg + 1
    /\ wpc' = [wpc EXCEPT ![spawned + 1] = "recv"]
    /\ UNCHANGED <<cfgvars, jobs, closed, statvars, mainpc, hi, pi, final,
                   wjob, wret, wreg, repvars, histvars, probevars,
                   linevars, emitvars, confvars>>

\* done := make(chan bool); go func() { ... }()
StartReporter ==
    /\ mainpc = "spawn"
    /\ ~(spawned < concurrency)
    /\ rpc' = "select"
    /\ mainpc' = "produce"
    /\ hi' = LoopStart[1]
    /\ pi' = LoopStart[2]
    /\ UNCHANGED <<cfgvars, chanvars, statvars, spawned, final, workvars,
                   rsnap, histvars, probevars,
                   linevars, emitvars, confvars>>

\* a send that does not wait for room in the buffer
Send_NoBackpressure ==
    /\ mainpc = "produce"
    /\ hi <= Len(hosts)
    /\ ~closed
    /\ jobs' = Append(jobs, [Host |-> hosts[hi], Port |-> portList[pi], id |-> JobId(hi, pi)])
    /\ sent' = Append(sent, <<hi, pi>>)
    /\ hi' = LoopAdvance(hi, pi)[1]
    /\ pi' = LoopAdvance(hi, pi)[2]
    /\ UNCHANGED <<cfgvars, closed, wg, statvars, mainpc, spawned, final,
                   workvars, repvars, taken, processed, incScannedCalls,
                   incOpenCalls, lastTick, probevars,
                   linevars, emitvars, confvars>>

\* jobs <- ScanJob{Host: targetHost, Port: port}: blocks while the buffer is
\* full.  A channel of capacity 0 has no buffer; it is made only when
\* concurrency is 0, and then no worker exists to receive from it.
Send ==
    /\ mainpc = "produce"
    /\ hi <= Len(hosts)
    /\ ~closed
    /\ Len(jobs) < QueueCap
    /\ jobs' = Append(jobs, [Host |-> hosts[hi], Port |-> portList[pi], id |-> JobId(hi, pi)])
    /\ sent' = Append(sent, <<hi, pi>>)
    /\ hi' = LoopAdvance(hi, pi)[1]
    /\ pi' = LoopAdvance(hi, pi)[2]
    /\ UNCHANGED <<cfgvars, closed, wg, statvars, mainpc, spawned, final,
                   workvars, repvars, taken, processed, incScannedCalls,
                   incOpenCalls, lastTick, probevars,
                   linevars, emitvars, confvars>>

\* close(jobs)
Close ==
    /\ mainpc = "produce"
    /\ ~(hi <= Len(hosts))
    /\ closed' = TRUE
    /\ mainpc' = "wait"
    /\ UNCHANGED <<cfgvars, jobs, wg, statvars, spawned, hi, pi, final,
                   workvars, repvars, histvars, probevars,
                   linevars, emitvars, confvars>>

\* a Wait that returns while workers are still running
Wait_NoBarrier ==
    /\ mainpc = "wait"
    /\ mainpc' = "signal"
    /\ UNCHANGED <<cfgvars, chanvars, statvars, spawned, hi, pi, final,
                   workvars, repvars, histvars, probevars,
                   linevars, emitvars, confvars>>

\* wg.Wait()
Wait ==
    /\ mainpc = "wait"
    /\ wg = 0
    /\ mainpc' = "signal"
    /\ UNCHANGED <<cfgvars, chanvars, statvars, spawned, hi, pi, final,
                   workvars, repvars, histvars, probevars,
                   linevars, emitvars, confvars>>

\* a send on done that completes without the reporter receiving it
Signal_NoRendezvous ==
    /\ mainpc = "signal"
    /\ mainpc' = "final"
    /\ UNCHANGED <<cfgvars, chanvars, statvars, spawned, hi, pi, final,
                   workvars, repvars, histvars, probevars,
                   linevars, emitvars, confvars>>

\* done <- true: done is unbuffered, the send completes with the reporter's
\* receive in its select
Signal ==
    /\ mainpc = "signal"
    /\ rpc = "select"
    /\ rpc' = "stopped"
    /\ mainpc' = "final"
    /\ UNCHANGED <<cfgvars, chanvars, statvars, spawned, hi, pi, final,
                   workvars, rsnap, histvars, probevars,
                   linevars, emitvars, confvars>>

\* scanned, openPorts, elapsed := stats.GetStats()
FinalGetStats ==
    /\ mainpc = "final"
    /\ Lock
    /\ final' = <<scanned, openPorts>>
    /\ mainpc' = "finalCS"
    /\ UNCHANGED <<cfgvars, chanvars, scanned, openPorts, spawned, hi, pi,
                   workvars, repvars, histvars, probevars,
                   linevars, emitvars, confvars>>

\* the deferred Unlock of GetStats, then the summary is printed
Summary ==
    /\ mainpc = "finalCS"
    /\ Unlock
    /\ mainpc' = "done"
    /\ UNCHANGED <<cfgvars, chanvars, scanned, openPorts, spawned, hi, pi,
                   final, workvars, repvars, histvars, probevars,
                   linevars, emitvars, confvars>>

MainNext ==
    \/ StartWorker
    \/ StartReporter
    \/ Send
    \/ Close
    \/ Wait
    \/ Signal
    \/ FinalGetStats
    \/ Summary

(***************************************************************************)
(* worker: for job := range jobs { ... }; defer wg.Done()                  *)
(***************************************************************************)
\* a receive that leaves the job in the buffer
Recv_Peek(w) ==
    /\ wpc[w] = "recv"
    /\ jobs # <<>>
    /\ wjob' = [wjob EXCEPT ![w] = Head(jobs)]
    /\ jobs' = jobs
    /\ taken' = [taken EXCEPT ![Head(jobs).id] = @ + 1]
    /\ wpc' = [wpc EXCEPT ![w] = "probe"]
    /\ UNCHANGED <<cfgvars, closed, wg, statvars, mainvars, wret, wreg,
                   repvars, sent, processed, incScannedCalls, incOpenCalls,
                   lastTick, probevars,
                   linevars, emitvars, confvars>>

\* the receive of the range loop, a job being buffered
Recv(w) ==
    /\ wpc[w] = "recv"
    /\ jobs # <<>>
    /\ wjob' = [wjob EXCEPT ![w] = Head(jobs)]
    /\ jobs' = Tail(jobs)
    /\ taken' = [taken EXCEPT ![Head(jobs).id] = @ + 1]
    /\ wpc' = [wpc EXCEPT ![w] = "probe"]
    /\ UNCHANGED <<cfgvars, closed, wg, statvars, mainvars, wret, wreg,
                   repvars, sent, processed, incScannedCalls, incOpenCalls,
                   lastTick, probevars,
                   linevars, emitvars, confvars>>

\* a worker that gives up as soon as the buffer is empty
Exit_OnEmpty(w) ==
    /\ wpc[w] = "recv"
    /\ jobs = <<>>
    /\ wpc' = [wpc EXCEPT ![w] = "exited"]
    /\ wg' = wg - 1
    /\ UNCHANGED <<cfgvars, jobs, closed, statvars, mainvars, wjob, wret,
                   wreg, repvars, histvars, probevars,
                   linevars, emitvars, confvars>>

\* the range loop ends when the channel is closed and drained; wg.Done()
Exit(w) ==
    /\ wpc[w] = "recv"
    /\ jobs = <<>>
    /\ closed
    /\ wpc' = [wpc EXCEPT ![w] = "exited"]
    /\ wg' = wg - 1
    /\ UNCHANGED <<cfgvars, jobs, closed, statvars, mainvars, wjob, wret,
                   wreg, repvars, histvars, probevars,
                   linevars, emitvars, confvars>>

\* a worker that takes every probe for a success
Probe_AlwaysOpen(w) ==
    /\ wpc[w] = "probe"
    /\ \E dial \in DialOutcomes(retries) :
          LET r == TryConnect(wjob[w].Host, wjob[w].Port, retries, dial)
          IN /\ wret' = [wret EXCEPT ![w] = r.ret]
             /\ probedOpen' = probedOpen + (IF r.ret THEN 1 ELSE 0)
             /\ wpc' = [wpc EXCEPT ![w] = "lookup"]
    /\ UNCHANGED <<cfgvars, chanvars, statvars, mainvars, wjob, wreg,
                   repvars, histvars, probevars, linevars, printed, written,
                   confvars>>

\* if TryConnect(job.Host, job.Port, retries) { ... }
Probe(w) ==
    /\ wpc[w] = "probe"
    /\ \E dial \in DialOutcomes(retries) :
          LET r == TryConnect(wjob[w].Host, wjob[w].Port, retries, dial)
          IN /\ wret' = [wret EXCEPT ![w] = r.ret]
             /\ probedOpen' = probedOpen + (IF r.ret THEN 1 ELSE 0)
             /\ wpc' = [wpc EXCEPT ![w] = IF r.ret THEN "lookup" ELSE "incScanned"]
    /\ UNCHANGED <<cfgvars, chanvars, statvars, mainvars, wjob, wreg,
                   repvars, histvars, probevars, linevars, printed, written,
                   confvars>>

\* a lookup whose failure leaves the display address empty
Lookup_NoFallback(w) ==
    /\ wpc[w] = "lookup"
    /\ \E lookupErr \in BOOLEAN, ips \in Answers(wjob[w].Host) :
          LET g == GetHostIP(wjob[w].Host, ips, lookupErr)
          IN /\ werr' = [werr EXCEPT ![w] = g.err]
             /\ wresult' = [wresult EXCEPT ![w] = [ip |-> g.ip, port |-> wjob[w].Port]]
    /\ wlookups' = [wlookups EXCEPT ![w] = @ + 1]
    /\ wpc' = [wpc EXCEPT ![w] = "print"]
    /\ UNCHANGED <<cfgvars, chanvars, statvars, mainvars, wjob, wret, wreg,
                   repvars, histvars, probevars, wopened, emitvars,
                   confvars>>

\* ip, err := GetHostIP(job.Host); if err != nil { ip = job.Host };
\* result := fmt.Sprintf("%s:%d\n", ip, job.Port)
Lookup(w) ==
    /\ wpc[w] = "lookup"
    /\ \E lookupErr \in BOOLEAN, ips \in Answers(wjob[w].Host) :
          LET g == GetHostIP(wjob[w].Host, ips, lookupErr)
              ip == IF g.err THEN wjob[w].Host ELSE g.ip
          IN /\ werr' = [werr EXCEPT ![w] = g.err]
             /\ wresult' = [wresult EXCEPT ![w] = [ip |-> ip, port |-> wjob[w].Port]]
    /\ wlookups' = [wlookups EXCEPT ![w] = @ + 1]
    /\ wpc' = [wpc EXCEPT ![w] = "print"]
    /\ UNCHANGED <<cfgvars, chanvars, statvars, mainvars, wjob, wret, wreg,
                   repvars, histvars, probevars, wopened, emitvars,
                   confvars>>

\* fmt.Print(result): the worker is in the call from the moment result is
\* formatted until this step; no lock is taken around it
PrintResult(w) ==
    /\ wpc[w] = "print"
    /\ printed' = printed + 1
    /\ wpc' = [wpc EXCEPT ![w] = "write"]
    /\ UNCHANGED <<cfgvars, chanvars, statvars, mainvars, wjob, wret, wreg,
                   repvars, histvars, probevars, linevars, probedOpen, written,
                   confvars>>

\* if stats.output != nil { stats.output.Write([]byte(result)) }; result, ip
\* and err are not used after this statement
WriteOutput(w) ==
    /\ wpc[w] = "write"
    /\ written' = IF output THEN written + 1 ELSE written
    /\ wpc' = [wpc EXCEPT ![w] = "incOpen"]
    /\ wresult' = [wresult EXCEPT ![w] = NoLine]
    /\ werr' = [werr EXCEPT ![w] = FALSE]
    /\ UNCHANGED <<cfgvars, chanvars, statvars, mainvars, wjob, wret, wreg,
                   repvars, histvars, probevars, wlookups, wopened, probedOpen,
                   printed,
                   confvars>>

\* stats.IncrementOpen(): s.mu.Lock(); s.openPorts++ (the load)
IncrementOpenLoad(w) ==
    /\ wpc[w] = "incOpen"
    /\ Lock
    /\ wreg' = [wreg EXCEPT ![w] = openPorts]
    /\ wpc' = [wpc EXCEPT ![w] = "incOpenCS"]
    /\ UNCHANGED <<cfgvars, chanvars, scanned, openPorts, mainvars, wjob,
                   wret, repvars, histvars, probevars,
                   linevars, emitvars, confvars>>

\* s.openPorts++ (the store); s.mu.Unlock()
IncrementOpenStore(w) ==
    /\ wpc[w] = "incOpenCS"
    /\ openPorts' = wreg[w] + 1
    /\ Unlock
    /\ incOpenCalls' = incOpenCalls + 1
    /\ wopened' = [wopened EXCEPT ![w] = @ + 1]
    /\ wpc' = [wpc EXCEPT ![w] = "incScanned"]
    /\ UNCHANGED <<cfgvars, chanvars, scanned, mainvars, wjob, wret, wreg,
                   repvars, sent, taken, processed, incScannedCalls, lastTick,
                   probevars, wresult, werr, wlookups, emitvars,
                   confvars>>

\* stats.IncrementScanned(): s.mu.Lock(); s.scanned++ (the load)
IncrementScannedLoad(w) ==
    /\ wpc[w] = "incScanned"
    /\ Lock
    /\ wreg' = [wreg EXCEPT ![w] = scanned]
    /\ wpc' = [wpc EXCEPT ![w] = "incScannedCS"]
    /\ UNCHANGED <<cfgvars, chanvars, scanned, openPorts, mainvars, wjob,
                   wret, repvars, histvars, probevars,
                   linevars, emitvars, confvars>>

\* s.scanned++ (the store); s.mu.Unlock(); back to the receive, the locals
\* of the iteration are gone
IncrementScannedStore(w) ==
    /\ wpc[w] = "incScannedCS"
    /\ scanned' = wreg[w] + 1
    /\ Unlock
    /\ incScannedCalls' = incScannedCalls + 1
    /\ wpc' = [wpc EXCEPT ![w] = "recv"]
    /\ processed' = [processed EXCEPT ![wjob[w].id] = @ + 1]
    /\ wjob' = [wjob EXCEPT ![w] = NoJob]
    /\ wlookups' = [wlookups EXCEPT ![w] = 0]
    /\ wopened' = [wopened EXCEPT ![w] = 0]
    /\ UNCHANGED <<cfgvars, chanvars, openPorts, mainvars, wret, wreg,
                   repvars, sent, taken, incOpenCalls, lastTick, probevars,
                   wresult, werr, emitvars,
                   confvars>>

WorkerNext ==
    \/ \E w \in Workers : Recv(w)
    \/ \E w \in Workers : Exit(w)
    \/ \E w \in Workers : Probe(w)
    \/ \E w \in Workers : Lookup(w)
    \/ \E w \in Workers : PrintResult(w)
    \/ \E w \in Workers : WriteOutput(w)
    \/ \E w \in Workers : IncrementOpenLoad(w)
    \/ \E w \in Workers : IncrementOpenStore(w)
    \/ \E w \in Workers : IncrementScannedLoad(w)
    \/ \E w \in Workers : IncrementScannedStore(w)

(***************************************************************************)
(* The progress reporter: select { case <-ticker.C: ... case <-done: }     *)
(***************************************************************************)
\* case <-ticker.C: the tick is taken, stats.GetStats() is called
Tick ==
    /\ rpc = "select"
    /\ rpc' = "getstats"
    /\ UNCHANGED <<cfgvars, chanvars, statvars, mainvars, workvars, rsnap,
                   histvars, probevars,
                   linevars, emitvars, confvars>>

\* GetStats: s.mu.Lock(); the return values are read
ReporterGetStats ==
    /\ rpc = "getstats"
    /\ Lock
    /\ rsnap' = <<scanned, openPorts>>
    /\ rpc' = "getstatsCS"
    /\ UNCHANGED <<cfgvars, chanvars, scanned, openPorts, mainvars, workvars,
                   histvars, probevars,
                   linevars, emitvars, confvars>>

\* the deferred Unlock of GetStats; the progress line is printed and the
\* locals of the case go out of scope
ReporterPrint ==
    /\ rpc = "getstatsCS"
    /\ Unlock
    /\ lastTick' = rsnap
    /\ rsnap' = NoSnap
    /\ rpc' = "select"
    /\ UNCHANGED <<cfgvars, chanvars, scanned, openPorts, mainvars, workvars,
                   sent, taken, processed, incScannedCalls, incOpenCalls,
                   probevars,
                   linevars, emitvars, confvars>>

ReporterNext ==
    \/ Tick
    \/ ReporterGetStats
    \/ ReporterPrint

Next ==
    \/ MainNext
    \/ WorkerNext
    \/ ReporterNext

Spec == Init /\ [][Next]_vars

(***************************************************************************)
(* main, from flag.Parse() to the start of the workers: the host list, the *)
(* port list and the output file.  os.Exit(1) leaves main at "fatal".      *)
(***************************************************************************)
enginevars == <<chanvars, statvars, workvars, repvars, probevars, linevars, emitvars>>

\* if host != "" { hosts = append(hosts, host) }
AddHost ==
    /\ mainpc = "start"
    /\ hosts' = IF hostFlag # "" THEN Append(hosts, hostFlag) ELSE hosts
    /\ mainpc' = "readHosts"
    /\ UNCHANGED <<portList, concurrency, retries, output, enginevars, spawned,
                   hi, pi, final, histvars, ports, genToks, tickvars, parseRes, cidrvars,
                   flagvars>>

\* if hostsFile != "" { fileHosts, err := ReadLines(hostsFile); ... }
ReadHosts ==
    /\ mainpc = "readHosts"
    /\ IF hostsFile.set /\ hostsFile.err
       THEN mainpc' = "fatal" /\ hosts' = hosts
       ELSE /\ hosts' = IF hostsFile.set THEN hosts \o hostsFile.lines ELSE hosts
            /\ mainpc' = "readCidrs"
    /\ UNCHANGED <<portList, concurrency, retries, output, enginevars, spawned,
                   hi, pi, final, histvars, ports, genToks, tickvars, parseRes, cidrvars,
                   flagvars>>

\* if cidrFile != "" { cidrs, err := ReadLines(cidrFile); ... }
ReadCidrs ==
    /\ mainpc = "readCidrs"
    /\ IF cidrFile.set /\ cidrFile.err
       THEN mainpc' = "fatal" /\ ci' = ci
       ELSE IF cidrFile.set
            THEN mainpc' = "expand" /\ ci' = 1
            ELSE mainpc' = "defaults" /\ ci' = ci
    /\ UNCHANGED <<cfgvars, enginevars, spawned, hi, pi, final, histvars,
                   ports, genToks, tickvars, parseRes, cidrvars, hostFlag, hostsFile,
                   cidrFile, outputFile>>

\* for _, cidr := range cidrs { ips, err := ExpandCIDR(cidr): the call
ExpandCall ==
    /\ mainpc = "expand"
    /\ epc = "idle"
    /\ ci <= Len(cidrFile.lines)
    /\ ecidr' = cidrFile.lines[ci]
    /\ epc' = "call"
    /\ UNCHANGED <<cfgvars, enginevars, mainvars, histvars, ports, genToks, tickvars,
                   parseRes, eip, eips, eret, flagvars>>

\* ... the return: if err != nil { ...; continue }; hosts = append(hosts, ips...)
ExpandDone ==
    /\ mainpc = "expand"
    /\ epc = "returned"
    /\ hosts' = IF eret.err THEN hosts ELSE hosts \o eret.ips
    /\ ci' = ci + 1
    /\ ecidr' = NoCidr /\ epc' = "idle" /\ eip' = <<>> /\ eips' = <<>> /\ eret' = NoRet
    /\ UNCHANGED <<portList, concurrency, retries, output, enginevars, mainpc,
                   spawned, hi, pi, final, histvars, ports, genToks, tickvars, parseRes,
                   hostFlag, hostsFile, cidrFile, outputFile>>

\* the range over cidrs is exhausted
ExpandEnd ==
    /\ mainpc = "expand"
    /\ epc = "idle"
    /\ ~(ci <= Len(cidrFile.lines))
    /\ mainpc' = "defaults"
    /\ UNCHANGED <<cfgvars, enginevars, spawned, hi, pi, final, histvars,
                   confvars>>

\* if len(hosts) == 0 { hosts = []string{"127.0.0.1"} }
DefaultHost ==
    /\ mainpc = "defaults"
    /\ hosts' = IF Len(hosts) = 0 THEN <<"127.0.0.1">> ELSE hosts
    /\ mainpc' = "ports"
    /\ UNCHANGED <<portList, concurrency, retries, output, enginevars, spawned,
                   hi, pi, final, histvars, confvars>>

\* a main that goes on with no ports when the specification does not parse
ParsePortList_IgnoresError ==
    /\ mainpc = "ports"
    /\ IF ports # <<>>
       THEN \E q \in MapOrders(ParsePorts(ports).portSet) : portList' = q
       ELSE portList' = [p \in 1..MaxPort |-> p]
    /\ mainpc' = "announce"
    /\ UNCHANGED <<hosts, concurrency, retries, output, enginevars, spawned,
                   hi, pi, final, histvars, confvars>>

\* if ports != "" { portList, err = ParsePorts(ports); ... } else { all ports }
ParsePortList ==
    /\ mainpc = "ports"
    /\ IF ports # <<>>
       THEN IF ParsePorts(ports).err
            THEN mainpc' = "fatal" /\ portList' = portList
            ELSE /\ \E q \in MapOrders(ParsePorts(ports).portSet) : portList' = q
                 /\ mainpc' = "announce"
       ELSE /\ portList' = [p \in 1..MaxPort |-> p]
            /\ mainpc' = "announce"
    /\ UNCHANGED <<hosts, concurrency, retries, output, enginevars, spawned,
                   hi, pi, final, histvars, confvars>>

\* totalJobs := len(hosts) * len(portList); the "Scanning ..." line;
\* jobs := make(chan ScanJob, concurrency*10)
Announce ==
    /\ mainpc = "announce"
    /\ taken' = [j \in JobIds |-> 0]
    /\ processed' = [j \in JobIds |-> 0]
    /\ mainpc' = "output"
    /\ UNCHANGED <<cfgvars, enginevars, spawned, hi, pi, final, sent,
                   incScannedCalls, incOpenCalls, lastTick, confvars>>

\* if outputFile != "" { outputFileHandle, err = os.Create(outputFile); ... };
\* stats := &Stats{startTime: time.Now(), output: outputWriter}
CreateOutput ==
    /\ mainpc = "output"
    /\ IF outputFile.set /\ outputFile.err
       THEN mainpc' = "fatal" /\ output' = output
       ELSE mainpc' = "spawn" /\ output' = outputFile.set
    /\ UNCHANGED <<hosts, portList, concurrency, retries, enginevars, spawned,
                   hi, pi, final, histvars, confvars>>

ConfigNext ==
    \/ AddHost
    \/ ReadHosts
    \/ ReadCidrs
    \/ ExpandCall
    \/ ExpandDone
    \/ ExpandEnd
    \/ DefaultHost
    \/ ParsePortList
    \/ Announce
    \/ CreateOutput

\* a file that cannot be read or created; a CIDR file of a line that does not
\* parse and a block of two addresses
Unusable == [set |-> TRUE, err |-> TRUE, lines |-> <<>>]

CidrLines ==
    <<NoCidr, [ok |-> TRUE, ip |-> [i \in 1..AddrBytes |-> 0], bits |-> AddrBits - 1]>>

\* the port specifications of a whole run: "1", "x" and ","
RunPortSpecs == {<<"1">>, <<"x">>, <<",">>}

InitMain ==
    /\ hosts = <<>> /\ portList = <<>> /\ output = FALSE
    /\ concurrency \in 1..MaxWorkers
    /\ retries = 1
    /\ jobs = <<>> /\ closed = FALSE /\ wg = 0
    /\ mu = FALSE /\ scanned = 0 /\ openPorts = 0
    /\ mainpc = "start" /\ spawned = 0 /\ hi = 0 /\ pi = 0 /\ final = NoSnap /\ ci = 0
    /\ wpc = [w \in Workers |-> "unborn"]
    /\ wjob = [w \in Workers |-> NoJob]
    /\ wret = [w \in Workers |-> FALSE]
    /\ wreg = [w \in Workers |-> 0]
    /\ wresult = [w \in Workers |-> NoLine]
    /\ werr = [w \in Workers |-> FALSE]
    /\ wlookups = [w \in Workers |-> 0]
    /\ wopened = [w \in Workers |-> 0]
    /\ rpc = "unborn" /\ rsnap = NoSnap
    /\ sent = <<>> /\ taken = <<>> /\ processed = <<>>
    /\ incScannedCalls = 0 /\ incOpenCalls = 0 /\ lastTick = <<0, 0>>
    /\ probedOpen = 0 /\ printed = 0 /\ written = 0
    /\ probeArgs = NoArgs /\ probeRes = NoProbe
    /\ genToks = <<>> /\ parseRes = NoParse
    /\ tickArgs = NoTick /\ tickLine = NoProgress
    /\ ecidr = NoCidr /\ epc = "idle" /\ eip = <<>> /\ eips = <<>> /\ eret = NoRet
    /\ hostFlag \in {"", "h1"}
    /\ hostsFile \in {NoFile, Unusable, [set |-> TRUE, err |-> FALSE, lines |-> <<"h2">>]}
    /\ cidrFile \in {NoFile, Unusable, [set |-> TRUE, err |-> FALSE, lines |-> CidrLines]}
    /\ ports \in RunPortSpecs
    /\ outputFile \in {NoFile, Unusable, [set |-> TRUE, err |-> FALSE, lines |-> <<>>]}

NextMain ==
    \/ ConfigNext
    \/ ExpandNext
    \/ MainNext
    \/ WorkerNext
    \/ ReporterNext

SpecMain == InitMain /\ [][NextMain]_vars

(***************************************************************************)
(* The same run with more jobs than the channel buffers: one worker, hence *)
(* a buffer of 10, and up to 2 * FullHosts jobs.                           *)
(***************************************************************************)
InitFull ==
    /\ hosts \in {[k \in 1..n |-> "h1"] : n \in 1..FullHosts}
    /\ portList \in {<<1>>, <<1, 2>>}
    /\ concurrency \in {0, 1}
    /\ retries \in {1}
    /\ output = FALSE
    /\ InitRun

SpecFull == InitFull /\ [][Next]_vars

(***************************************************************************)
(* TryConnect alone: every retry budget from -1 to MaxProbeRetries against *)
(* every sequence of dial outcomes.  The engine stays as configured, with  *)
(* nothing to scan.                                                        *)
(***************************************************************************)
InitProbe ==
    /\ hosts = <<"h1">> /\ portList = <<>> /\ concurrency = 0 /\ retries = 0
    /\ output = FALSE
    /\ InitEngine
    /\ InitConfigured
    /\ probeArgs \in [host : HostNames, port : 1..MaxPorts,
                      n : -1..MaxProbeRetries, dial : DialOutcomes(MaxProbeRetries)]
    /\ probeRes = NoProbe

ProbeCall ==
    /\ probeRes = NoProbe
    /\ probeRes' = TryConnect(probeArgs.host, probeArgs.port, probeArgs.n, probeArgs.dial)
    /\ UNCHANGED <<cfgvars, chanvars, statvars, mainvars, workvars, repvars,
                   histvars, probeArgs,
                   linevars, emitvars, confvars>>

NextProbe == ProbeCall

SpecProbe == InitProbe /\ [][NextProbe]_vars

(***************************************************************************)
(* ParsePorts alone.  A port specification is written out from a sequence  *)
(* of tokens: single numbers, signed numbers, ranges, and malformed tokens *)
(* (a word, a negative number, a range of three numbers, an empty token),  *)
(* each with or without blanks around its numbers, over the port values    *)
(* at and next to both ends of [1, 65535].                                 *)
(***************************************************************************)
PortVals == {0, 1, 2, MaxPort - 1, MaxPort, MaxPort + 1}

Tokens ==
    [kind : {"single", "signed", "word", "negative"}, a : PortVals, b : {0}, ws : BOOLEAN]
        \cup {t \in [kind : {"range", "triple"}, a : PortVals, b : PortVals, ws : BOOLEAN] :
                  t.b - t.a <= 2}
        \cup [kind : {"empty"}, a : {0}, b : {0}, ws : BOOLEAN]

\* the decimal numeral of n
RECURSIVE Itoa(_)
Itoa(n) ==
    IF n < 10 THEN <<DigitChars[n + 1]>>
    ELSE Itoa(n \div 10) \o <<DigitChars[(n % 10) + 1]>>

Pad(ws, s) == IF ws THEN <<" ">> \o s \o <<" ">> ELSE s

TokenText(t) ==
    CASE t.kind = "single" -> Pad(t.ws, Itoa(t.a))
      [] t.kind = "signed" -> Pad(t.ws, <<"+">> \o Itoa(t.a))
      [] t.kind = "word" -> Pad(t.ws, (IF t.a = 0 THEN <<>> ELSE Itoa(t.a)) \o <<"x">>)
      [] t.kind = "negative" -> Pad(t.ws, <<"-">> \o Itoa(t.a))
      [] t.kind = "range" -> Pad(t.ws, Itoa(t.a)) \o <<"-">> \o Pad(t.ws, Itoa(t.b))
      [] t.kind = "triple" ->
            Pad(t.ws, Itoa(t.a)) \o <<"-">> \o Pad(t.ws, Itoa(t.b)) \o <<"-">> \o Pad(t.ws, Itoa(t.b))
      [] t.kind = "empty" -> IF t.ws THEN <<" ">> ELSE <<>>

\* the tokens, separated by commas
RECURSIVE SpecText(_)
SpecText(toks) ==
    IF toks = <<>> THEN <<>>
    ELSE IF Len(toks) = 1 THEN TokenText(toks[1])
    ELSE TokenText(toks[1]) \o <<",">> \o SpecText(Tail(toks))

InitPorts ==
    /\ hosts = <<"h1">> /\ portList = <<>> /\ concurrency = 0 /\ retries = 0
    /\ output = FALSE
    /\ InitEngine
    /\ probeArgs = NoArgs /\ probeRes = NoProbe
    /\ hostFlag = "" /\ hostsFile = NoFile /\ cidrFile = NoFile /\ outputFile = NoFile /\ ci = 0
    /\ genToks \in UNION {[1..k -> Tokens] : k \in 0..MaxTokens}
    /\ tickArgs = NoTick /\ tickLine = NoProgress
    /\ ports = SpecText(genToks)
    /\ parseRes = NoParse
    /\ ecidr = NoCidr /\ epc = "idle" /\ eip = <<>> /\ eips = <<>> /\ eret = NoRet

\* ports, err := ParsePorts(ports)
ParseCall ==
    /\ parseRes = NoParse
    /\ LET r == ParsePorts(ports)
       IN \E q \in MapOrders(r.portSet) : parseRes' = [err |-> r.err, ports |-> q]
    /\ UNCHANGED <<cfgvars, chanvars, statvars, mainvars, workvars, repvars,
                   histvars, probevars, linevars, emitvars, ports, genToks, tickvars,
                   cidrvars, flagvars>>

NextPorts == ParseCall

SpecPorts == InitPorts /\ [][NextPorts]_vars

(***************************************************************************)
(* ExpandCIDR alone, called on every address with every prefix length, and *)
(* on a string that does not parse.                                        *)
(***************************************************************************)
InitCIDR ==
    /\ hosts = <<"h1">> /\ portList = <<>> /\ concurrency = 0 /\ retries = 0
    /\ output = FALSE
    /\ InitEngine
    /\ probeArgs = NoArgs /\ probeRes = NoProbe
    /\ hostFlag = "" /\ hostsFile = NoFile /\ cidrFile = NoFile /\ outputFile = NoFile /\ ci = 0
    /\ ports = <<>> /\ genToks = <<>> /\ parseRes = NoParse
    /\ tickArgs = NoTick /\ tickLine = NoProgress
    /\ ecidr \in Cidrs
    /\ epc = "call" /\ eip = <<>> /\ eips = <<>> /\ eret = NoRet

NextCIDR == ExpandNext

SpecCIDR == InitCIDR /\ [][NextCIDR]_vars

(***************************************************************************)
(* The arithmetic of one progress tick, src/main.go:323-328.  A float64 is *)
(* a record: a finite value is the fraction n/d, and the two other classes *)
(* are +Inf and NaN.  The operands here are never negative.                *)
(***************************************************************************)
Finite(n, d) == [cls |-> "fin", n |-> n, d |-> d]

PosInf == [cls |-> "inf", n |-> 1, d |-> 0]

NaN == [cls |-> "nan", n |-> 0, d |-> 0]

\* float64(i)
Float64(i) == Finite(i, 1)

IsZero(x) == x.cls = "fin" /\ x.n = 0

\* x / y on float64: a division by zero is not a run-time panic, it gives
\* NaN for 0/0 and an infinity otherwise
FDiv(x, y) ==
    IF x.cls = "nan" \/ y.cls = "nan" THEN NaN
    ELSE IF x.cls = "inf" THEN (IF y.cls = "inf" THEN NaN ELSE PosInf)
    ELSE IF y.cls = "inf" THEN Float64(0)
    ELSE IF IsZero(y) THEN (IF IsZero(x) THEN NaN ELSE PosInf)
    ELSE Finite(x.n * y.d, x.d * y.n)

\* time.Duration(x) * time.Second, in seconds, for a finite x: the fraction
\* is truncated
Truncated(x) == x.n \div x.d

\* time.Duration(x) * time.Second, in seconds, when x is +Inf or NaN: the
\* conversion of a float64 that the integer type cannot represent is
\* implementation-dependent.  amd64 gives the smallest int64 for both, and
\* its product with 1e9 wraps to 0; arm64 gives the largest int64 for +Inf,
\* whose product wraps to -1e9 nanoseconds, and 0 for NaN.
NonFiniteDurations == {0, -1}

Durations(x) == IF x.cls = "fin" THEN {Truncated(x)} ELSE NonFiniteDurations

\* progress := float64(scanned) * 100 / float64(totalJobs)
\* rate := float64(scanned) / elapsed.Seconds()
\* eta := time.Duration(float64(totalJobs-scanned)/rate) * time.Second
ProgressLine(a, eta) ==
    LET progress == FDiv(Float64(a.scanned * 100), Float64(a.totalJobs))
        rate == FDiv(Float64(a.scanned), Float64(a.elapsed))
        quotient == FDiv(Float64(a.totalJobs - a.scanned), rate)
    IN [progress |-> progress, rate |-> rate, quotient |-> quotient, eta |-> eta]

\* the quotient the ETA is converted from
EtaQuotient(a) ==
    FDiv(Float64(a.totalJobs - a.scanned), FDiv(Float64(a.scanned), Float64(a.elapsed)))

\* the snapshots a tick can be computed from: scanned and openPorts within
\* totalJobs, which is 0 when the port list is empty
TickInputs ==
    {a \in [scanned : 0..(MaxHosts * MaxPorts), openPorts : 0..(MaxHosts * MaxPorts),
            elapsed : 0..MaxElapsed, totalJobs : 0..(MaxHosts * MaxPorts)] :
        a.scanned <= a.totalJobs /\ a.openPorts <= a.totalJobs}

InitTick ==
    /\ hosts = <<"h1">> /\ portList = <<>> /\ concurrency = 0 /\ retries = 0
    /\ output = FALSE
    /\ InitEngine
    /\ probeArgs = NoArgs /\ probeRes = NoProbe
    /\ hostFlag = "" /\ hostsFile = NoFile /\ cidrFile = NoFile /\ outputFile = NoFile /\ ci = 0
    /\ ports = <<>> /\ genToks = <<>> /\ parseRes = NoParse
    /\ ecidr = NoCidr /\ epc = "idle" /\ eip = <<>> /\ eips = <<>> /\ eret = NoRet
    /\ tickArgs \in TickInputs
    /\ tickLine = NoProgress

\* case <-ticker.C: the three values are computed and the line is printed
TickCall ==
    /\ tickLine = NoProgress
    /\ \E eta \in Durations(EtaQuotient(tickArgs)) :
          tickLine' = ProgressLine(tickArgs, eta)
    /\ UNCHANGED <<cfgvars, chanvars, statvars, mainvars, workvars, repvars,
                   histvars, probevars, linevars, emitvars, ports, genToks,
                   parseRes, cidrvars, flagvars, tickArgs>>

NextTick == TickCall

SpecTick == InitTick /\ [][NextTick]_vars

(***************************************************************************)
(* Properties.                                                             *)
(***************************************************************************)
Range(q) == {q[k] : k \in DOMAIN q}

AllPairs == (1..Len(hosts)) \X (1..Len(portList))

Holding(w) == wjob[w] # NoJob

AllExited == \A w \in Workers : wpc[w] = "exited"

\* how many times job j sits in the buffer, and in workers' hands
InBuffer(j) == Cardinality({k \in DOMAIN jobs : jobs[k].id = j})

InHand(j) == Cardinality({w \in Workers : wjob[w].id = j})

\* C1: the producer sends one job per (host position, port position) pair,
\* H*P in all once the channel is closed, each carrying that pair's host and
\* port; and when the summary has been computed scanned is H*P.
C1_DispatchCompleteness ==
    /\ Len(sent) <= totalJobs
    /\ Range(sent) \subseteq AllPairs
    /\ \A a, b \in DOMAIN sent : a # b => sent[a] # sent[b]
    /\ \A k \in DOMAIN jobs :
          \E pr \in Range(sent) :
              /\ jobs[k].Host = hosts[pr[1]]
              /\ jobs[k].Port = portList[pr[2]]
              /\ jobs[k].id = JobId(pr[1], pr[2])
    /\ closed => Len(sent) = totalJobs /\ Range(sent) = AllPairs
    /\ mainpc = "done" => scanned = totalJobs /\ final[1] = totalJobs

\* a completed run over a host listed twice, two ports, two workers
C1_Witness ==
    /\ mainpc = "done"
    /\ Len(hosts) = 2 /\ hosts[1] = hosts[2]
    /\ Len(portList) = 2
    /\ concurrency = 2
    /\ scanned = 4

\* C2: every job sent is, at any time, in exactly one place: in the buffer
\* once, in one worker's hands, or processed once; it is never received
\* twice, two workers never hold the same job, and after the run every job
\* has been received once and processed once.
C2_ExactlyOnce ==
    /\ \A j \in JobIds :
          /\ taken[j] <= 1
          /\ processed[j] <= 1
          /\ taken[j] = InHand(j) + processed[j]
          /\ InBuffer(j) + InHand(j) + processed[j]
                = (IF \E pr \in Range(sent) : JobId(pr[1], pr[2]) = j THEN 1 ELSE 0)
    /\ \A v, w \in Workers : v # w /\ Holding(v) /\ Holding(w) => wjob[v].id # wjob[w].id
    /\ mainpc = "done" => \A j \in JobIds : taken[j] = 1 /\ processed[j] = 1

\* two workers hold two different jobs while a third is buffered and a
\* fourth is done
C2_Witness ==
    /\ concurrency = 2
    /\ Holding(1) /\ Holding(2)
    /\ wpc[1] = "probe" /\ wpc[2] = "incScanned"
    /\ \E j \in JobIds : processed[j] = 1
    /\ Len(jobs) = 1

\* some goroutine other than the idle ticker can take a step
RunCanProgress ==
    \/ ENABLED MainNext
    \/ ENABLED WorkerNext
    \/ ENABLED ReporterGetStats
    \/ ENABLED ReporterPrint

\* C3: before the final summary the run is never stuck: main, a worker or
\* a tick in progress can always take a step (so that, under fair
\* scheduling, the run reaches the summary), for every worker count >= 0.
C3_NoDeadlockBeforeCompletion == mainpc # "done" => RunCanProgress

\* C4: the reporter is stopped only after every worker has exited; main is
\* past the stop signal only with the channel closed and drained, every
\* worker exited and the reporter stopped; the final statistics are read
\* with no worker holding a job.
C4_ShutdownBarrier ==
    /\ mainpc = "signal" => AllExited /\ wg = 0
    /\ rpc = "stopped" => AllExited
    /\ mainpc \in {"final", "finalCS", "done"} =>
          /\ closed /\ jobs = <<>>
          /\ AllExited /\ wg = 0
          /\ rpc = "stopped"
    /\ final # NoSnap => \A w \in Workers : ~Holding(w) /\ wpc[w] = "exited"

\* main reads the final statistics after two workers scanned four jobs
C4_Witness ==
    /\ mainpc = "finalCS"
    /\ concurrency = 2
    /\ final = <<4, 2>>

RECURSIVE SumTaken(_)
SumTaken(n) == IF n = 0 THEN 0 ELSE taken[n] + SumTaken(n - 1)

\* C5: the buffer never holds more than 10*C jobs, nor are more than 10*C
\* jobs sent and not yet received; while the buffer is full nothing is sent,
\* and the only change to the buffer is a worker's receive.
C5_Backpressure ==
    /\ [](Len(jobs) <= QueueCap /\ Len(sent) - SumTaken(totalJobs) <= QueueCap)
    /\ [][Len(jobs) = QueueCap => sent' = sent /\ Len(jobs') <= Len(jobs)]_vars

\* the buffer of one worker is full, the worker holds an eleventh job and
\* the producer has a twelfth to send
C5_Witness ==
    /\ concurrency = 1
    /\ Len(jobs) = QueueCap
    /\ Holding(1)
    /\ mainpc = "produce" /\ hi <= Len(hosts)
    /\ Len(sent) = 11 /\ totalJobs = 12

\* C6: the channel is closed only after all H*P jobs were sent and nothing
\* is sent after the close; a worker exits only with the channel closed and
\* empty, so that no job is buffered or still to be sent once a worker has
\* exited.
C6_CloseAndDrain ==
    /\ [](closed => Len(sent) = totalJobs /\ mainpc # "produce")
    /\ []((\E w \in Workers : wpc[w] = "exited") =>
              closed /\ jobs = <<>> /\ Len(sent) = totalJobs)
    /\ [][/\ closed => closed' /\ sent' = sent /\ Len(jobs') <= Len(jobs)
          /\ ~closed /\ closed' => Len(sent) = totalJobs
          /\ \A w \in Workers :
                wpc[w] # "exited" /\ wpc'[w] = "exited" => closed /\ jobs = <<>>]_vars

\* one worker has exited while the other still probes the last job
C6_Witness ==
    /\ concurrency = 2
    /\ wpc[1] = "exited"
    /\ wpc[2] = "probe"
    /\ totalJobs = 4

\* the calls of one kind in a trace
Calls(tr, op) == {k \in DOMAIN tr : tr[k].op = op}

\* the first attempt of budget n that succeeds, 0 when none does
FirstSuccess(n, dial) ==
    IF \E k \in 1..n : dial[k]
    THEN CHOOSE k \in 1..n : dial[k] /\ \A l \in 1..(k - 1) : ~dial[l]
    ELSE 0

\* C7: TryConnect(host, port, N) dials at most N times; it returns true at
\* the first attempt that succeeds, having dialled exactly that many times,
\* with the close of the connection as its last call and no sleep after it;
\* it returns false only when all N attempts failed; with N <= 0 it makes
\* no call and returns false.
C7_RetrySemantics ==
    probeRes # NoProbe =>
        LET n == probeArgs.n
            tr == probeRes.trace
            f == FirstSuccess(n, probeArgs.dial)
            dials == Cardinality(Calls(tr, "dial"))
        IN /\ dials <= Max(n, 0)
           /\ \A k \in DOMAIN tr : tr[k].to = <<probeArgs.host, probeArgs.port>>
           /\ probeRes.ret <=> f # 0
           /\ f # 0 =>
                 /\ dials = f
                 /\ Calls(tr, "close") = {Len(tr)}
                 /\ tr[Len(tr) - 1].op = "dial"
                 /\ Cardinality(Calls(tr, "sleep")) = f - 1
           /\ f = 0 => dials = Max(n, 0) /\ Calls(tr, "close") = {}
           /\ n <= 0 => tr = <<>> /\ ~probeRes.ret

\* budget 3, the second attempt succeeds and the third would have too
C7_Witness ==
    /\ probeArgs.n = 3
    /\ probeArgs.dial = <<FALSE, TRUE, TRUE>>
    /\ probeRes.ret
    /\ Len(probeRes.trace) = 4

\* C8: a probe that fails all N attempts sleeps between attempts only:
\* N-1 times, and not after the last failed attempt.
C8_DelayBetweenAttemptsOnly ==
    probeRes # NoProbe /\ ~probeRes.ret /\ probeArgs.n >= 1 =>
        /\ Cardinality(Calls(probeRes.trace, "sleep")) = probeArgs.n - 1
        /\ probeRes.trace[Len(probeRes.trace)].op # "sleep"

\* how many goroutines are inside IncrementScanned, IncrementOpen or GetStats
WorkersInside == {w \in Workers : wpc[w] \in {"incOpenCS", "incScannedCS"}}

NumInside ==
    Cardinality(WorkersInside)
        + (IF rpc = "getstatsCS" THEN 1 ELSE 0)
        + (IF mainpc = "finalCS" THEN 1 ELSE 0)

\* C9: at most one of the workers, the reporter and main is inside a Stats
\* method, and the mutex is held exactly then; every completed increment is
\* in its counter; a snapshot is taken with no worker between the load and
\* the store of an increment and equals the counters.
C9_StatsMutualExclusion ==
    /\ NumInside <= 1
    /\ mu <=> NumInside = 1
    /\ scanned = incScannedCalls
    /\ openPorts = incOpenCalls
    /\ rsnap # NoSnap => WorkersInside = {} /\ rsnap = <<incScannedCalls, incOpenCalls>>
    /\ mainpc = "finalCS" => WorkersInside = {} /\ final = <<incScannedCalls, incOpenCalls>>

\* a worker is inside IncrementScanned while the other worker and the
\* reporter wait for the mutex
C9_Witness ==
    /\ concurrency = 2
    /\ wpc[1] = "incScannedCS"
    /\ wpc[2] = "incOpen"
    /\ rpc = "getstats"

\* C10: no step lowers scanned or openPorts or raises either by more than
\* one, and each snapshot the reporter takes is at least the snapshot of its
\* previous tick, in both counters.
C10_CounterMonotonicity ==
    [][/\ scanned' \in {scanned, scanned + 1}
       /\ openPorts' \in {openPorts, openPorts + 1}
       /\ rsnap = NoSnap /\ rsnap' # NoSnap =>
             rsnap'[1] >= lastTick[1] /\ rsnap'[2] >= lastTick[2]]_vars

\* a tick that reads larger counters than the tick before it
C10_Witness ==
    /\ lastTick = <<1, 1>>
    /\ rsnap = <<3, 2>>

\* the workers inside fmt.Print, and inside stats.output.Write
Printing == {w \in Workers : wpc[w] = "print"}

WritingFile == {w \in Workers : wpc[w] = "write" /\ output}

InPortRange(n) == 1 <= n /\ n <= MaxPort

TokenValid(t) ==
    \/ t.kind \in {"single", "signed"} /\ InPortRange(t.a)
    \/ t.kind = "range" /\ InPortRange(t.a) /\ InPortRange(t.b) /\ t.a <= t.b

TokenBad(t) ==
    \/ t.kind \in {"word", "negative", "triple"}
    \/ t.kind \in {"single", "signed"} /\ ~InPortRange(t.a)
    \/ t.kind = "range" /\ (~InPortRange(t.a) \/ ~InPortRange(t.b) \/ t.a > t.b)

TokenPorts(t) == IF t.kind = "range" THEN t.a..t.b ELSE {t.a}

\* C14: for a specification made of valid tokens only (numbers and ranges
\* within [1, 65535], start <= end), in any order and with or without blanks
\* around the numbers, ParsePorts returns no error and a list whose members
\* are exactly the ports the tokens list, each once.
C14_ParseResult ==
    parseRes # NoParse /\ (\A k \in DOMAIN genToks : TokenValid(genToks[k])) =>
        /\ ~parseRes.err
        /\ Range(parseRes.ports) = UNION {TokenPorts(genToks[k]) : k \in DOMAIN genToks}
        /\ \A a, b \in DOMAIN parseRes.ports : a # b => parseRes.ports[a] # parseRes.ports[b]

\* " 1 - 2 ,2": a blank-padded range and a number it already holds; the list
\* comes back as 2, 1
C14_Witness ==
    /\ genToks = <<[kind |-> "range", a |-> 1, b |-> 2, ws |-> TRUE],
                   [kind |-> "single", a |-> 2, b |-> 0, ws |-> FALSE]>>
    /\ ports = <<" ", "1", " ", "-", " ", "2", " ", ",", "2">>
    /\ parseRes = [err |-> FALSE, ports |-> <<2, 1>>]

\* C15: a specification with a token that is not a number, is outside
\* [1, 65535], has more than one hyphen, or is a range with start > end makes
\* ParsePorts return an error and no ports, whatever the other tokens are;
\* 1 and 65535 alone are accepted.
C15_ParseRejection ==
    parseRes # NoParse =>
        /\ (\E k \in DOMAIN genToks : TokenBad(genToks[k])) =>
              parseRes.err /\ parseRes.ports = <<>>
        /\ Len(genToks) = 1 /\ genToks[1].kind = "single" /\ genToks[1].a \in {1, MaxPort} =>
              ~parseRes.err /\ parseRes.ports = <<genToks[1].a>>

\* "65535,65536": the first token is valid, the second is one too high
C15_Witness ==
    /\ genToks = <<[kind |-> "single", a |-> MaxPort, b |-> 0, ws |-> FALSE],
                   [kind |-> "single", a |-> MaxPort + 1, b |-> 0, ws |-> FALSE]>>
    /\ parseRes.err
    /\ parseRes.ports = <<>>

\* an address as a number, most significant byte first, and back
RECURSIVE AddrValue(_, _)
AddrValue(ip, i) == IF i = 0 THEN 0 ELSE AddrValue(ip, i - 1) * ByteSize + ip[i]

AddrAt(n) == [i \in 1..AddrBytes |-> (n \div (ByteSize ^ (AddrBytes - i))) % ByteSize]

\* the block of a CIDR: its size, its first address, and its addresses in
\* ascending order from the a-th to the b-th
BlockSize(cidr) == 2 ^ (AddrBits - cidr.bits)

BlockBase(cidr) == AddrValue(cidr.ip, AddrBytes) - (AddrValue(cidr.ip, AddrBytes) % BlockSize(cidr))

BlockSlice(cidr, a, b) == [k \in 1..(b - a + 1) |-> IPString(AddrAt(BlockBase(cidr) + a + k - 2))]

\* C16: for a block with prefix length up to two less than the address width
\* (IPv4: 0 to 30) ExpandCIDR returns the block's addresses in ascending
\* order without the first and the last, 2^(width - p) - 2 of them; for the
\* two longest prefix lengths (/31, /32) it returns the whole block; its loop
\* never holds more addresses than the block has.
C16_ExpansionSizeAndContent ==
    ecidr.ok =>
        /\ epc = "loop" => Len(eips) <= BlockSize(ecidr)
        /\ epc = "returned" =>
              /\ ~eret.err
              /\ eret.ips = IF ecidr.bits <= AddrBits - 2
                            THEN BlockSlice(ecidr, 2, BlockSize(ecidr) - 1)
                            ELSE BlockSlice(ecidr, 1, BlockSize(ecidr))
              /\ ecidr.bits <= AddrBits - 2 => Len(eret.ips) = BlockSize(ecidr) - 2

\* the same for every prefix length but 0
C16_HoldsFromPrefixOne == ecidr.bits >= 1 => C16_ExpansionSizeAndContent

\* one of the failures of configuration is in the input
ConfigFails ==
    \/ hostsFile.set /\ hostsFile.err
    \/ cidrFile.set /\ cidrFile.err
    \/ ports # <<>> /\ ParsePorts(ports).err
    \/ outputFile.set /\ outputFile.err

\* no worker and no reporter has been started, nothing has been sent on
\* jobs, no job has been received (so no connection was tried) or counted
NothingStarted ==
    /\ spawned = 0 /\ wg = 0
    /\ \A w \in Workers : wpc[w] = "unborn" /\ ~Holding(w)
    /\ rpc = "unborn"
    /\ sent = <<>> /\ jobs = <<>> /\ ~closed
    /\ \A j \in DOMAIN taken : taken[j] = 0
    /\ probedOpen = 0 /\ printed = 0 /\ written = 0
    /\ scanned = 0 /\ openPorts = 0

BeforeWork == {"start", "readHosts", "readCidrs", "expand", "defaults", "ports", "announce", "output"}

\* C13: with an unreadable hosts or CIDR file, an invalid port specification
\* or an output file that cannot be created, main never gets to start a
\* worker: it stays in its configuration steps with nothing started, sent or
\* probed, the step that meets the failure exits, and the exit state is
\* final, with nothing started.
C13_ConfigFailuresAbort ==
    /\ [](ConfigFails => mainpc \in BeforeWork \cup {"fatal"} /\ NothingStarted)
    /\ [](mainpc = "fatal" => ConfigFails /\ NothingStarted)
    /\ [][/\ mainpc = "readHosts" /\ hostsFile.set /\ hostsFile.err => mainpc' = "fatal"
          /\ mainpc = "readCidrs" /\ cidrFile.set /\ cidrFile.err => mainpc' = "fatal"
          /\ mainpc = "ports" /\ ports # <<>> /\ ParsePorts(ports).err => mainpc' = "fatal"
          /\ mainpc = "output" /\ outputFile.set /\ outputFile.err => mainpc' = "fatal"
          /\ mainpc = "fatal" => mainpc' = "fatal"]_vars

\* the output file cannot be created: main exits after four hosts and one
\* port were configured and announced
C13_Witness ==
    /\ mainpc = "fatal"
    /\ outputFile.err
    /\ Len(hosts) = 4 /\ portList = <<1>>
    /\ ~ParsePorts(ports).err
    /\ concurrency = 2


(***************************************************************************)
(* Best-effort name resolution of an open port's host                      *)
(***************************************************************************)
\* the line a worker holds for its job, given whether the lookup failed
LineFor(w) ==
    [ip   |-> IF werr[w] THEN wjob[w].Host ELSE AddrOf(wjob[w].Host),
     port |-> wjob[w].Port]

\* the lookup is reached only with a true probe and is made at most once
LookupAfterOpenProbe ==
    \A w \in Workers :
        /\ wpc[w] = "lookup" => (Holding(w) /\ wret[w] /\ wlookups[w] = 0)
        /\ wlookups[w] <= 1
        /\ wlookups[w] = 1 => (Holding(w) /\ wret[w])

\* the printed line carries the resolved address, or the job's own host
\* when the lookup failed
LineCarriesHostOnFailure ==
    \A w \in Workers :
        wpc[w] \in {"print", "write"} => wresult[w] = LineFor(w)

\* a lookup, failed or not, leads to the print, the write and the open
\* counter; the iteration ends counted once as open and once as scanned, and
\* the worker is back at the receive
LookupStep(w) ==
    /\ (wpc[w] = "lookup" /\ wpc'[w] # "lookup") => wpc'[w] = "print"
    /\ (wpc[w] = "print" /\ wpc'[w] # "print") => wpc'[w] = "write"
    /\ (wpc[w] = "write" /\ wpc'[w] # "write") => wpc'[w] = "incOpen"
    /\ (Holding(w) /\ ~Holding(w)') =>
          /\ wlookups[w] = (IF wret[w] THEN 1 ELSE 0)
          /\ wopened[w] = wlookups[w]
          /\ processed'[wjob[w].id] = processed[wjob[w].id] + 1
          /\ wpc'[w] = "recv"

\* C17: GetHostIP is called only for a job whose probe returned true, and
\* once; when it fails the result line carries the job's original host, the
\* job is still counted open and scanned, and the worker goes on to its next
\* job.
C17_BestEffortLookup ==
    /\ [](LookupAfterOpenProbe /\ LineCarriesHostOnFailure)
    /\ [][\A w \in Workers : LookupStep(w)]_vars

\* a worker prints a line after a failed lookup of a host that has an
\* address of its own
C17_Witness ==
    \E w \in Workers :
        /\ wpc[w] = "write"
        /\ werr[w]
        /\ wresult[w].ip = wjob[w].Host
        /\ AddrOf(wjob[w].Host) # wjob[w].Host
        /\ printed > 0


(***************************************************************************)
(* The progress line of a tick whose snapshot has a zero in it             *)
(***************************************************************************)
TickPrinted == tickLine # NoProgress

ZeroInSnapshot ==
    tickArgs.scanned = 0 \/ tickArgs.elapsed = 0 \/ tickArgs.totalJobs = 0

\* the ETA was converted from a finite quotient, not from the outcome of a
\* division by a zero rate
EtaFromFiniteQuotient == tickLine.quotient.cls = "fin"

\* C18: a progress tick computed from a snapshot with scanned = 0, with
\* elapsed = 0 or with total = 0 reports progress 0 and rate 0, and its ETA
\* is not a value derived from dividing by a zero rate.
C18_ReporterStability ==
    (TickPrinted /\ ZeroInSnapshot) =>
        /\ IsZero(tickLine.progress)
        /\ IsZero(tickLine.rate)
        /\ EtaFromFiniteQuotient


(***************************************************************************)
(* Per-job accounting                                                      *)
(***************************************************************************)
\* the statements of the open branch are reached only with a true probe, and
\* IncrementOpen is called at most once in an iteration
OpenBranchOnlyWhenOpen ==
    \A w \in Workers :
        /\ wpc[w] \in {"lookup", "print", "write", "incOpen", "incOpenCS"} =>
              (Holding(w) /\ wret[w])
        /\ wopened[w] <= 1
        /\ wopened[w] = 1 => wret[w]

\* closed jobs leave no trace but the scanned counter: lines and open counts
\* never outnumber the probes that returned true
ClosedJobsOnlyScanned ==
    /\ printed <= probedOpen
    /\ incOpenCalls <= probedOpen
    /\ openPorts <= probedOpen
    /\ \A j \in JobIds : processed[j] <= 1

\* the iteration of a job ends with scanned one higher, and with the open
\* counter incremented once if the probe returned true and not at all
\* otherwise
JobDone(w) ==
    (Holding(w) /\ ~Holding(w)') =>
        /\ scanned' = scanned + 1
        /\ processed'[wjob[w].id] = 1
        /\ wopened[w] = (IF wret[w] THEN 1 ELSE 0)
        /\ wlookups[w] = wopened[w]

\* a probe that returns false goes straight to IncrementScanned
ClosedProbe(w) ==
    (wpc[w] = "probe" /\ wpc'[w] # "probe" /\ ~wret'[w]) =>
        /\ wpc'[w] = "incScanned"
        /\ UNCHANGED <<openPorts, printed, written, probedOpen, incOpenCalls>>

\* the summary of a finished run
AtCompletion ==
    final # NoSnap =>
        /\ final[1] = totalJobs
        /\ final[2] = probedOpen
        /\ 0 <= final[2] /\ final[2] <= totalJobs

\* C19: for every job a worker processes, scanned is incremented exactly
\* once whatever the probe outcome, and open exactly once if and only if the
\* probe returned true; a job whose retries are exhausted is recorded as
\* closed and nothing else happens.  At completion open is the number of
\* jobs whose probe succeeded, and 0 <= open <= H*P.
C19_PerJobAccounting ==
    /\ [](OpenBranchOnlyWhenOpen /\ ClosedJobsOnlyScanned /\ AtCompletion)
    /\ [][\A w \in Workers : JobDone(w) /\ ClosedProbe(w)]_vars

\* a finished run in which some probes succeeded and some did not
C19_Witness ==
    /\ final # NoSnap
    /\ final[1] = totalJobs
    /\ 0 < final[2] /\ final[2] < totalJobs
    /\ final[2] = probedOpen


(***************************************************************************)
(* The snapshots of GetStats                                               *)
(***************************************************************************)
\* the snapshots in hand: the reporter's, of the tick in progress, and the
\* one main reads for the summary
Snapshots == {rsnap, final} \ {NoSnap}

\* the workers that have counted their job open and not yet scanned
WorkersAhead == {w \in Workers : wopened[w] = 1}

\* C20: every snapshot returned by GetStats, to the reporter during the run
\* or to the final summary, satisfies 0 <= open <= scanned <= H*P.
C20_SnapshotConsistency ==
    \A s \in Snapshots : 0 <= s[2] /\ s[2] <= s[1] /\ s[1] <= totalJobs

\* C20, amended: every snapshot has 0 <= open <= H*P and 0 <= scanned <= H*P;
\* in a snapshot of the reporter open exceeds scanned by at most the number
\* of workers between IncrementOpen and IncrementScanned, and in the snapshot
\* of the final summary open <= scanned.
C20_SnapshotWithinWorkersAhead ==
    /\ \A s \in Snapshots :
          /\ 0 <= s[2] /\ s[2] <= totalJobs
          /\ 0 <= s[1] /\ s[1] <= totalJobs
    /\ rsnap # NoSnap => rsnap[2] <= rsnap[1] + Cardinality(WorkersAhead)
    /\ final # NoSnap => final[2] <= final[1]

\* the reporter holds a snapshot with more open ports than ports scanned
C20_Witness ==
    /\ rsnap # NoSnap
    /\ rsnap[2] > rsnap[1]
    /\ rsnap[2] = rsnap[1] + Cardinality(WorkersAhead)


(***************************************************************************)
(* The reporter after the stop signal                                      *)
(***************************************************************************)
SummaryStarted == mainpc \in {"final", "finalCS", "done"}

ReporterStopped == rpc = "stopped" /\ rsnap = NoSnap

\* main leaves done <- true only in the step in which the reporter receives
SignalIsRendezvous ==
    (mainpc = "signal" /\ mainpc' # "signal") =>
        (rpc = "select" /\ rpc' = "stopped" /\ mainpc' = "final")

\* a stopped reporter takes no snapshot and prints no progress line
StoppedForGood ==
    rpc = "stopped" => (rpc' = "stopped" /\ rsnap' = NoSnap /\ lastTick' = lastTick)

\* a step of the reporter's tick ends neither main nor a worker
ReporterLeavesRun ==
    (rpc \in {"select", "getstats", "getstatsCS"} /\ rpc' # rpc /\ rpc' # "stopped") =>
        UNCHANGED <<mainvars, workvars, chanvars>>

\* C21: main proceeds to the final summary only once the reporter has
\* received the stop signal; after that the reporter takes no further
\* snapshot and emits no progress line, so no progress line is emitted after
\* the final summary has started, and the reporter never terminates the run.
C21_ReporterQuiescence ==
    /\ [](SummaryStarted => ReporterStopped)
    /\ [][SignalIsRendezvous /\ StoppedForGood /\ ReporterLeavesRun]_vars

\* a finished run whose reporter printed a progress line with jobs scanned
\* before it was stopped
C21_Witness ==
    /\ mainpc = "done"
    /\ rpc = "stopped"
    /\ lastTick[1] > 0


(***************************************************************************)
(* The enumeration loop of ExpandCIDR                                      *)
(***************************************************************************)
\* no address was appended twice
VisitedOnce == \A a, b \in DOMAIN eips : a # b => eips[a] # eips[b]

\* the loop has not gone past the last address of the block, and at its exit
\* it has visited the whole block
WithinBlock ==
    /\ Len(eips) <= BlockSize(ecidr)
    /\ epc = "returned" => Len(eips) = BlockSize(ecidr)

\* the loop can still leave the block: the addresses left to visit are
\* followed by one that is outside
ExitAhead ==
    epc = "loop" =>
        \/ ~NetContains(ecidr, eip)
        \/ \E a \in Addrs : ~NetContains(ecidr, a)

\* C22: for every parseable CIDR block, the blocks whose last address is the
\* all-ones address and the block of prefix length 0 included, the loop of
\* ExpandCIDR terminates after visiting each address of the block exactly
\* once, without wrapping around and revisiting addresses.
C22_ExpansionTerminates ==
    (ecidr.ok /\ epc \in {"loop", "returned"}) =>
        (VisitedOnce /\ WithinBlock /\ ExitAhead)

\* the same, for the blocks of prefix length 1 and more
ExpansionTerminatesFromPrefixOne == ecidr.bits >= 1 => C22_ExpansionTerminates

\* a block that ends at the all-ones address, fully visited and left
AllOnesBlockLeft ==
    /\ ecidr.ok /\ ecidr.bits >= 1 /\ ecidr.bits < AddrBits
    /\ epc = "returned"
    /\ eips[Len(eips)] = IPString([i \in 1..AddrBytes |-> ByteSize - 1])


(***************************************************************************)
(* The port list of a run that reaches dispatch                            *)
(***************************************************************************)
\* main has announced the scan and is starting, feeding or ending the pool
Dispatching ==
    mainpc \in {"spawn", "produce", "wait", "signal", "final", "finalCS", "done"}

\* the port specification parses, without error, to no port at all
ParsesToNothing == ~ParsePorts(ports).err /\ ParsePorts(ports).portSet = {}

\* C23: whenever the run reaches dispatch the port list of the cross product
\* is not empty: a port specification that yields an empty set without error
\* (the empty string, or only commas and whitespace) makes the caller use
\* the full range 1..65535, and the run never dispatches zero jobs because
\* of an empty parsed port set.
C23_NonEmptyPortSet ==
    Dispatching =>
        /\ portList # <<>>
        /\ totalJobs > 0
        /\ ParsesToNothing => portList = [p \in 1..MaxPort |-> p]

\* ParsePorts returns no port and no error for a specification made only of
\* commas and whitespace
OnlyCommasParseToNothing ==
    (parseRes # NoParse /\ \A k \in DOMAIN genToks : genToks[k].kind = "empty") =>
        (~parseRes.err /\ parseRes.ports = <<>>)

\* a specification of one comma between blanks has been parsed
OnlyCommasParsed ==
    /\ parseRes # NoParse
    /\ Len(genToks) = 2
    /\ \A k \in DOMAIN genToks : genToks[k].kind = "empty" /\ genToks[k].ws
    /\ ports = <<" ", ",", " ">>

=============================================================================
